---- MODULE Spec2Model ----
(***************************************************************************)
(* Rate limiting, retrying HTTP client and backend availability monitor of *)
(* the agent-responsive-digital-twin frontend.                             *)
(*                                                                         *)
(*   packages/frontend/lib/ai.ts             getRedisClient, the in-memory *)
(*                                           mock store, checkRateLimit    *)
(*   packages/frontend/lib/api.ts            apiClient.request,            *)
(*                                           apiClient.isBackendAvailable  *)
(*   packages/frontend/lib/BackendContext.tsx BackendProvider.checkBackend *)
(*   packages/frontend/app/api/agent/route.ts POST                         *)
(*                                                                         *)
(* Time is Date.now() in milliseconds.  The specifications of the module: *)
(*   Spec             the rate limiter, store reachability fixed           *)
(*   SpecOutage       the rate limiter, the connection coming and going    *)
(*   SpecOutageOne    the same for one client address, up to its denial    *)
(*   SpecRace         two checks of one client address in flight at once   *)
(*   SpecContend      two callers taking one client address past the limit *)
(*   SpecRoute        POST /api/agent                                      *)
(*   SpecStores       the mock store and Redis given the same commands     *)
(*   SpecRequest      apiClient.request                                    *)
(*   SpecRequestFair  the same, every attempt and every delay ending       *)
(*   SpecMonitor      BackendProvider                                      *)
(*   SpecMonitorFair  the same, timers firing and health checks settling   *)
(***************************************************************************)
EXTENDS Integers, Sequences, FiniteSets, TLC

VARIABLES
    now,            \* Date.now(), ms
    redisCtorThrows,\* environment: whether `new Redis(url, ...)` throws
    redisReady,     \* environment: the ioredis connection serves commands
    redisClient,    \* ai.ts:204, the singleton: "null", "redis" or "mock"
    constructions,  \* number of store clients constructed by getRedisClient
    store,          \* the counter store's keyspace: [storage, expirations]
    pc,             \* per caller: position inside checkRateLimit
    identifier,     \* per caller: argument of checkRateLimit
    incrResult,     \* per caller: local incrResult
    ttl,            \* per caller: local ttl
    result,         \* per caller: the decision returned
    threw,          \* per caller: a store operation threw during the call
    ord,            \* per caller: this call's ordinal inside its window
    window,         \* per identifier: the current window (start, calls)
    tainted,        \* per identifier: some store operation has thrown for it
    calls,          \* number of checkRateLimit calls started
    quota,          \* per identifier: the lives of its counter key so far and
                    \* the decisions with allowed = true returned in each
    \* apiClient.request
    reqPc,          \* "idle", "attempt", "wait", "returned" or "thrown"
    retries,        \* api.ts:42
    lastError,      \* api.ts:43
    reqResult,      \* response.data returned, or the message of the Error thrown
    attemptLog,     \* outcomes of the HTTP attempts of the current call, in order
    waited,         \* delays waited by the current call, in order, ms
    \* BackendProvider
    monNow,         \* Date.now() in the browser, ms
    mounted,        \* the provider's effect has run
    isBackendAvailable, isChecking, lastChecked, error, failureCount,
    retryTimeout,   \* BackendContext.tsx:46-51, the component's state
    inFlight,       \* health probes started and not yet completed
    timerDue,       \* when the pending setTimeout fires; -1: none pending
    pendingTimers,  \* timeouts set and neither fired nor cleared
    probesStarted,  \* number of checkBackend calls so far
    lastProbe,      \* the probe completed last: outcome and state before it
    \* POST /api/agent
    routePc,        \* per request slot: "idle", "limiting", "provider", "responded"
    response,       \* per request slot: status and X-RateLimit-* headers sent
    providerCalled, \* per request slot: anthropic.messages.create was called
    \* the two counter stores side by side
    eqNow,          \* Date.now(), ms
    mockStore,      \* keyspace of the in-memory mock
    redisStore,     \* keyspace of Redis
    lastOp,         \* the command applied last to both
    mockRet,        \* what the mock returned for it
    redisRet,       \* what Redis returned for it
    storeOps        \* number of commands applied

rlVars == <<now, redisCtorThrows, redisReady, redisClient, constructions,
            store, pc, identifier, incrResult, ttl, result, threw, ord,
            window, tainted, calls, quota>>

reqVars == <<reqPc, retries, lastError, reqResult, attemptLog, waited>>

monVars == <<monNow, mounted, isBackendAvailable, isChecking, lastChecked,
             error, failureCount, retryTimeout, inFlight, timerDue,
             pendingTimers, probesStarted, lastProbe>>

routeVars == <<routePc, response, providerCalled>>

eqVars == <<eqNow, mockStore, redisStore, lastOp, mockRet, redisRet, storeOps>>

vars == <<rlVars, reqVars, monVars, routeVars, eqVars>>

-----------------------------------------------------------------------------
(* Program constants                                                        *)

RATE_LIMIT == 10
RATE_LIMIT_WINDOW_SEC == 60

(* Bounds of the model                                                      *)

MaxCalls == 12        \* checkRateLimit calls per behaviour of Spec
MaxOutageCalls == 4   \* the same, per behaviour of SpecOutage
MaxNow == 60000       \* the clock stops here

\* Clock advances between calls, ms.  Sums reach 59500 (half a second before
\* the window of a call made at 0 closes) and 60000 (the instant it closes).
TickSteps == {29500, 30000}

Identifiers == {"1.2.3.4", "unknown"}
Callers == {1, 2}
SeqCallers == {1}
MaxRaceCalls == 5     \* checkRateLimit calls per behaviour of SpecRace

-----------------------------------------------------------------------------
(* Arithmetic helpers                                                       *)

\* Math.ceil(a / b) for a >= 0, b > 0
CeilDiv(a, b) == (a + b - 1) \div b

\* a key that leaves the identifier out
KeyOfShared(id) == <<"ratelimit:", "shared">>

\* const key = `ratelimit:${identifier}`
KeyOf(id) == <<"ratelimit:", id>>

\* Map.set / Map.delete on a function with a finite domain
MapSet(m, k, v) == [x \in DOMAIN m \cup {k} |-> IF x = k THEN v ELSE m[x]]
MapDelete(m, k) == [x \in DOMAIN m \ {k} |-> m[x]]

EmptyStore == [storage |-> <<>>, expirations |-> <<>>]

-----------------------------------------------------------------------------
(* The in-memory mock store, createMockRedisClient.  Each operation maps a  *)
(* keyspace to [st |-> the keyspace after, ret |-> the value returned].     *)

\* an increment whose write is lost when the key already holds a count
MockIncrLost(st, key) ==
    LET currentValue == IF key \in DOMAIN st.storage THEN st.storage[key] ELSE 0
        newValue == currentValue + 1
    IN  [st  |-> IF key \in DOMAIN st.storage THEN st
                 ELSE [st EXCEPT !.storage = MapSet(st.storage, key, newValue)],
         ret |-> newValue]

MockIncr(st, key) ==
    LET currentValue == IF key \in DOMAIN st.storage THEN st.storage[key] ELSE 0
        newValue == currentValue + 1
    IN  [st  |-> [st EXCEPT !.storage = MapSet(st.storage, key, newValue)],
         ret |-> newValue]

MockExpire(st, key, seconds, t) ==
    IF key \notin DOMAIN st.storage
    THEN [st |-> st, ret |-> 0]
    ELSE [st  |-> [st EXCEPT !.expirations =
                        MapSet(st.expirations, key, t + seconds * 1000)],
          ret |-> 1]

MockTtl(st, key, t) ==
    IF key \notin DOMAIN st.storage THEN [st |-> st, ret |-> -2]
    ELSE IF key \notin DOMAIN st.expirations \/ st.expirations[key] = 0
    THEN [st |-> st, ret |-> -1]
    ELSE LET remainingMs == st.expirations[key] - t
         IN  IF remainingMs <= 0
             THEN [st  |-> [storage     |-> MapDelete(st.storage, key),
                            expirations |-> MapDelete(st.expirations, key)],
                   ret |-> -2]
             ELSE [st |-> st, ret |-> CeilDiv(remainingMs, 1000)]

-----------------------------------------------------------------------------
(* The shared store: Redis INCR / EXPIRE / TTL, reached through ioredis.    *)
(* A key whose expiry time has passed is gone for every command.            *)

RedisLive(st, key, t) ==
    /\ key \in DOMAIN st.storage
    /\ (key \in DOMAIN st.expirations => t < st.expirations[key])

\* the keyspace with `key` dropped if it has expired
RedisPurge(st, key, t) ==
    IF RedisLive(st, key, t) THEN st
    ELSE [storage     |-> MapDelete(st.storage, key),
          expirations |-> MapDelete(st.expirations, key)]

\* an INCR whose write is lost when the key already holds a count
RedisIncrLost(st, key, t) ==
    LET live == key \in DOMAIN st.storage /\
                (key \in DOMAIN st.expirations => t < st.expirations[key])
        newValue == (IF live THEN st.storage[key] ELSE 0) + 1
    IN  [st  |-> IF live THEN st
                 ELSE [storage |-> MapSet(st.storage, key, newValue),
                       expirations |-> MapDelete(st.expirations, key)],
         ret |-> newValue]

RedisIncr(st, key, t) ==
    LET s == RedisPurge(st, key, t)
        newValue == (IF key \in DOMAIN s.storage THEN s.storage[key] ELSE 0) + 1
    IN  [st  |-> [s EXCEPT !.storage = MapSet(s.storage, key, newValue)],
         ret |-> newValue]

RedisExpire(st, key, seconds, t) ==
    LET s == RedisPurge(st, key, t)
    IN  IF key \notin DOMAIN s.storage
        THEN [st |-> s, ret |-> 0]
        ELSE [st  |-> [s EXCEPT !.expirations =
                           MapSet(s.expirations, key, t + seconds * 1000)],
              ret |-> 1]

\* TTL answers in seconds, rounded to the nearest second
RedisTtl(st, key, t) ==
    LET s == RedisPurge(st, key, t)
    IN  IF key \notin DOMAIN s.storage THEN [st |-> s, ret |-> -2]
        ELSE IF key \notin DOMAIN s.expirations THEN [st |-> s, ret |-> -1]
        ELSE [st |-> s, ret |-> (s.expirations[key] - t + 500) \div 1000]

-----------------------------------------------------------------------------
(* getRedisClient: the singleton is constructed on first use; a throwing    *)
(* constructor installs the mock.                                           *)

\* a singleton test that keeps a real client only
ConstructsUnlessRedis(client) == client # "redis"

\* if (!redisClient), ai.ts:210
Constructs(client) == client = "null"

GetRedisClient(client, ctorThrows) ==
    IF Constructs(client)
    THEN IF ctorThrows THEN "mock" ELSE "redis"
    ELSE client

\* The keyspace behind the client returned: createMockRedisClient starts
\* from empty Maps; the shared store's keyspace outlives the client.
StoreBehind(constructed, client, st) ==
    IF constructed /\ client = "mock" THEN EmptyStore ELSE st

\* A command on the ioredis client rejects while the connection is down;
\* the mock never rejects.
StoreThrows(client, ready) == client = "redis" /\ ~ready

Incr(client, st, key, t) ==
    IF client = "mock" THEN MockIncr(st, key) ELSE RedisIncr(st, key, t)

Expire(client, st, key, seconds, t) ==
    IF client = "mock" THEN MockExpire(st, key, seconds, t)
    ELSE RedisExpire(st, key, seconds, t)

Ttl(client, st, key, t) ==
    IF client = "mock" THEN MockTtl(st, key, t) ELSE RedisTtl(st, key, t)

-----------------------------------------------------------------------------
(* checkRateLimit                                                           *)

NoResult == [allowed |-> FALSE, remaining |-> 0, limit |-> 0, reset |-> 0]

\* a decision that already denies the request that reaches the limit
DecisionDenyAtLimit(incr, ttlSec, t) ==
    LET resetTimestamp == CeilDiv(t, 1000) + ttlSec
    IN  IF incr >= RATE_LIMIT
        THEN [allowed |-> FALSE, remaining |-> 0,
              limit |-> RATE_LIMIT, reset |-> resetTimestamp]
        ELSE [allowed |-> TRUE, remaining |-> RATE_LIMIT - incr,
              limit |-> RATE_LIMIT, reset |-> resetTimestamp]

\* ai.ts:372-390
Decision(incr, ttlSec, t) ==
    LET resetTimestamp == CeilDiv(t, 1000) + ttlSec
    IN  IF incr > RATE_LIMIT
        THEN [allowed |-> FALSE, remaining |-> 0,
              limit |-> RATE_LIMIT, reset |-> resetTimestamp]
        ELSE [allowed |-> TRUE, remaining |-> RATE_LIMIT - incr,
              limit |-> RATE_LIMIT, reset |-> resetTimestamp]

\* a catch block that fails closed
FailClosed(t) ==
    [allowed |-> FALSE, remaining |-> 0, limit |-> RATE_LIMIT,
     reset |-> CeilDiv(t, 1000) + RATE_LIMIT_WINDOW_SEC]

\* ai.ts:391-396, the catch block
FailOpen(t) ==
    [allowed |-> TRUE, remaining |-> RATE_LIMIT - 1, limit |-> RATE_LIMIT,
     reset |-> CeilDiv(t, 1000) + RATE_LIMIT_WINDOW_SEC]

\* a branch that sets the expiry for the first request only
NeedsExpireFirstOnly(incr, ttlSec) == incr = 1

\* ai.ts:363-370: the expiry is set for the first request of a key, and for
\* a key found without one
NeedsExpire(incr, ttlSec) == incr = 1 \/ ttlSec = -1

\* What the catch block of checkRateLimit does with a rejected store command
Caught(p) ==
    /\ pc' = [pc EXCEPT ![p] = "done"]
    /\ result' = [result EXCEPT ![p] = FailOpen(now)]
    /\ threw' = [threw EXCEPT ![p] = TRUE]

\* The window a call made at time t for identifier id falls into: the
\* current one while fewer than RATE_LIMIT_WINDOW_SEC seconds have passed
\* since its first call, a fresh one otherwise.
WindowAt(w, t) ==
    IF w.open /\ t < w.start + RATE_LIMIT_WINDOW_SEC * 1000
    THEN [w EXCEPT !.calls = w.calls + 1]
    ELSE [open |-> TRUE, start |-> t, calls |-> 1]

\* History of the key of id: an increment returning 1 has created the key,
\* which opens a new life of it; caller p's call belongs to the life its
\* increment fell into.
Counts(q, p, id, incr) ==
    IF incr = 1
    THEN [gen     |-> [q.gen EXCEPT ![id] = @ + 1],
          of      |-> [q.of EXCEPT ![p] = q.gen[id] + 1],
          granted |-> [q.granted EXCEPT ![id] = Append(@, 0)]]
    ELSE [q EXCEPT !.of[p] = q.gen[id]]

\* History: the decision dec is returned to caller p
Grants(q, p, id, dec) ==
    IF dec.allowed /\ q.of[p] > 0
    THEN [q EXCEPT !.granted[id][q.of[p]] = @ + 1]
    ELSE q

\* checkRateLimit(id) up to its first await: getRedisClient(), redis.incr(key)
CallIncr(p, id, cap) ==
    /\ pc[p] \in {"idle", "done"}
    /\ calls < cap
    /\ calls' = calls + 1
    /\ identifier' = [identifier EXCEPT ![p] = id]
    /\ redisClient' = GetRedisClient(redisClient, redisCtorThrows)
    /\ constructions' = constructions + (IF Constructs(redisClient) THEN 1 ELSE 0)
    /\ window' = [window EXCEPT ![id] = WindowAt(window[id], now)]
    /\ ord' = [ord EXCEPT ![p] = window'[id].calls]
    /\ IF StoreThrows(redisClient', redisReady)
       THEN /\ Caught(p)
            /\ tainted' = [tainted EXCEPT ![id] = TRUE]
            /\ incrResult' = [incrResult EXCEPT ![p] = 0]
            /\ ttl' = [ttl EXCEPT ![p] = 0]
            /\ quota' = [quota EXCEPT !.of[p] = 0]
            /\ UNCHANGED store
       ELSE LET st == StoreBehind(Constructs(redisClient), redisClient', store)
                r == Incr(redisClient', st, KeyOf(id), now)
            IN  /\ store' = r.st
                /\ incrResult' = [incrResult EXCEPT ![p] = r.ret]
                /\ quota' = Counts(quota, p, id, r.ret)
                /\ ttl' = [ttl EXCEPT ![p] = 0]
                /\ pc' = [pc EXCEPT ![p] = "ttl"]
                /\ threw' = [threw EXCEPT ![p] = FALSE]
                /\ result' = [result EXCEPT ![p] = NoResult]
                /\ UNCHANGED tainted
    /\ UNCHANGED <<now, redisCtorThrows, redisReady>>
    /\ UNCHANGED <<reqVars, monVars, eqVars>>

\* checkRateLimit called on its own, outside the route handler
Check(p, id, cap) == CallIncr(p, id, cap) /\ UNCHANGED routeVars

\* let ttl = await redis.ttl(key), then the branch on incrResult and ttl:
\* either on to redis.expire, or straight to the decision
CallTtl(p) ==
    /\ pc[p] = "ttl"
    /\ IF StoreThrows(redisClient, redisReady)
       THEN /\ Caught(p)
            /\ tainted' = [tainted EXCEPT ![identifier[p]] = TRUE]
            /\ UNCHANGED <<store, ttl, quota>>
       ELSE LET r == Ttl(redisClient, store, KeyOf(identifier[p]), now)
            IN  /\ store' = r.st
                /\ ttl' = [ttl EXCEPT ![p] = r.ret]
                /\ IF NeedsExpire(incrResult[p], r.ret)
                   THEN /\ pc' = [pc EXCEPT ![p] = "expire"]
                        /\ UNCHANGED <<result, quota>>
                   ELSE /\ pc' = [pc EXCEPT ![p] = "done"]
                        /\ result' = [result EXCEPT ![p] =
                                         Decision(incrResult[p], r.ret, now)]
                        /\ quota' = Grants(quota, p, identifier[p], result'[p])
                /\ UNCHANGED <<threw, tainted>>
    /\ UNCHANGED <<now, redisCtorThrows, redisReady, redisClient, constructions,
                   identifier, incrResult, ord, window, calls>>
    /\ UNCHANGED <<reqVars, monVars, routeVars, eqVars>>

\* await redis.expire(key, resetIntervalSec); ttl = resetIntervalSec; decide
CallExpire(p) ==
    /\ pc[p] = "expire"
    /\ IF StoreThrows(redisClient, redisReady)
       THEN /\ Caught(p)
            /\ tainted' = [tainted EXCEPT ![identifier[p]] = TRUE]
            /\ UNCHANGED <<store, ttl, quota>>
       ELSE LET r == Expire(redisClient, store, KeyOf(identifier[p]),
                            RATE_LIMIT_WINDOW_SEC, now)
            IN  /\ store' = r.st
                /\ ttl' = [ttl EXCEPT ![p] = RATE_LIMIT_WINDOW_SEC]
                /\ pc' = [pc EXCEPT ![p] = "done"]
                /\ result' = [result EXCEPT ![p] =
                                 Decision(incrResult[p], RATE_LIMIT_WINDOW_SEC, now)]
                /\ quota' = Grants(quota, p, identifier[p], result'[p])
                /\ UNCHANGED <<threw, tainted>>
    /\ UNCHANGED <<now, redisCtorThrows, redisReady, redisClient, constructions,
                   identifier, incrResult, ord, window, calls>>
    /\ UNCHANGED <<reqVars, monVars, routeVars, eqVars>>

\* The clock advances while no check is in flight (a store round trip is
\* short against the steps of TickSteps).
Tick ==
    /\ \A p \in Callers : pc[p] \in {"idle", "done"}
    /\ \E d \in TickSteps :
          /\ now + d <= MaxNow
          /\ now' = now + d
    /\ UNCHANGED <<redisCtorThrows, redisReady, redisClient, constructions,
                   store, pc, identifier, incrResult, ttl, result, threw, ord,
                   window, tainted, calls, quota>>
    /\ UNCHANGED <<reqVars, monVars, routeVars, eqVars>>

\* redisClient.on('close'): the connection to the shared store is lost
RedisClose ==
    /\ redisClient = "redis"
    /\ redisReady
    /\ redisReady' = FALSE
    /\ UNCHANGED <<now, redisCtorThrows, redisClient, constructions, store, pc,
                   identifier, incrResult, ttl, result, threw, ord, window,
                   tainted, calls, quota>>
    /\ UNCHANGED <<reqVars, monVars, routeVars, eqVars>>

\* redisClient.on('ready'): the connection is (re-)established
RedisReady ==
    /\ redisClient = "redis"
    /\ ~redisReady
    /\ redisReady' = TRUE
    /\ UNCHANGED <<now, redisCtorThrows, redisClient, constructions, store, pc,
                   identifier, incrResult, ttl, result, threw, ord, window,
                   tainted, calls, quota>>
    /\ UNCHANGED <<reqVars, monVars, routeVars, eqVars>>

RLInit ==
    /\ now = 0
    /\ redisCtorThrows \in BOOLEAN
    /\ redisReady \in BOOLEAN
    /\ redisClient = "null"
    /\ constructions = 0
    /\ store = EmptyStore
    /\ pc = [p \in Callers |-> "idle"]
    /\ identifier = [p \in Callers |-> "unknown"]
    /\ incrResult = [p \in Callers |-> 0]
    /\ ttl = [p \in Callers |-> 0]
    /\ result = [p \in Callers |-> NoResult]
    /\ threw = [p \in Callers |-> FALSE]
    /\ ord = [p \in Callers |-> 0]
    /\ window = [id \in Identifiers |-> [open |-> FALSE, start |-> 0, calls |-> 0]]
    /\ tainted = [id \in Identifiers |-> FALSE]
    /\ calls = 0
    /\ quota = [gen     |-> [id \in Identifiers |-> 0],
                of      |-> [p \in Callers |-> 0],
                granted |-> [id \in Identifiers |-> <<>>]]

-----------------------------------------------------------------------------
(* apiClient.request: the retrying HTTP client                              *)

MAX_RETRIES == 2
RETRY_DELAY == 1000

\* What one HTTP attempt can end in.  A success carries the response data; a
\* failure is the AxiosError: its response (status and body) if the server
\* answered, its code and message otherwise.
NoBody == [message |-> "", error |-> ""]
Bodies == {NoBody, [message |-> "server message", error |-> ""],
           [message |-> "", error |-> "server error"]}

Successes ==
    {[ok |-> TRUE, hasResponse |-> TRUE, status |-> 200, code |-> "",
      body |-> NoBody, message |-> "", data |-> d] : d \in {"data1", "data2"}}

HttpErrors ==
    {[ok |-> FALSE, hasResponse |-> TRUE, status |-> st, code |-> "ERR_BAD_RESPONSE",
      body |-> b, message |-> "Request failed", data |-> ""] :
        st \in {400, 404, 429, 500, 503}, b \in Bodies}

NetworkErrors ==
    {[ok |-> FALSE, hasResponse |-> FALSE, status |-> 0, code |-> "ERR_NETWORK",
      body |-> NoBody, message |-> m, data |-> ""] : m \in {"Network Error", ""}}

Timeouts ==
    {[ok |-> FALSE, hasResponse |-> FALSE, status |-> 0, code |-> "ECONNABORTED",
      body |-> NoBody, message |-> "timeout of 10000ms exceeded", data |-> ""]}

Failures == HttpErrors \cup NetworkErrors \cup Timeouts

NoError == [ok |-> TRUE, hasResponse |-> FALSE, status |-> 0, code |-> "",
            body |-> NoBody, message |-> "", data |-> ""]

\* api.ts:67
IsNetworkError(e) == ~e.hasResponse /\ e.code # "ECONNABORTED"

\* every failure retried
IsRetryableAlways(e) == TRUE

\* every error status retried, the 4xx too
IsRetryableFrom400(e) ==
    IsNetworkError(e) \/ (e.hasResponse /\ e.status >= 400)

\* api.ts:68
IsRetryable(e) ==
    IsNetworkError(e) \/ (e.hasResponse /\ (e.status >= 500 \/ e.status = 429))

\* the break taken one failure late
GivesUpLate(r, e) == r > MAX_RETRIES \/ ~IsRetryable(e)

\* api.ts:70, the condition of the break
GivesUp(r, e) == r >= MAX_RETRIES \/ ~IsRetryable(e)

\* a delay that does not grow
RetryDelayFlat(r) == RETRY_DELAY

\* api.ts:76, the delay before the next attempt
RetryDelayMs(r) == RETRY_DELAY * (r + 1)

\* a message that prefers the transport's words to the server's
ErrorMessageTransportFirst(e) ==
    IF e.message # "" THEN e.message
    ELSE IF e.hasResponse /\ e.body.message # "" THEN e.body.message
    ELSE IF e.hasResponse /\ e.body.error # "" THEN e.body.error
    ELSE "API request failed"

\* api.ts:82-88; an empty string is falsy
ErrorMessage(e) ==
    IF e.hasResponse /\ e.body.message # "" THEN e.body.message
    ELSE IF e.hasResponse /\ e.body.error # "" THEN e.body.error
    ELSE IF e.message # "" THEN e.message
    ELSE "API request failed"

\* apiClient.request(...) is called: retries = 0, lastError = null, and the
\* loop is entered
Request ==
    /\ reqPc \in {"idle", "returned", "thrown"}
    /\ retries' = 0
    /\ lastError' = NoError
    /\ reqResult' = ""
    /\ attemptLog' = <<>>
    /\ waited' = <<>>
    /\ reqPc' = IF 0 <= MAX_RETRIES THEN "attempt" ELSE "thrown"
    /\ UNCHANGED <<rlVars, monVars, routeVars, eqVars>>

\* the awaited client call resolves: return response.data
AttemptSucceeds(o) ==
    /\ reqPc = "attempt"
    /\ o \in Successes
    /\ attemptLog' = Append(attemptLog, o)
    /\ reqResult' = o.data
    /\ reqPc' = "returned"
    /\ UNCHANGED <<retries, lastError, waited>>
    /\ UNCHANGED <<rlVars, monVars, routeVars, eqVars>>

\* the awaited client call rejects: the catch block, up to the break (and
\* the throw after the loop) or up to the await of the retry delay
AttemptFails(e) ==
    /\ reqPc = "attempt"
    /\ e \in Failures
    /\ attemptLog' = Append(attemptLog, e)
    /\ lastError' = e
    /\ IF GivesUp(retries, e)
       THEN /\ reqPc' = "thrown"
            /\ reqResult' = ErrorMessage(e)
       ELSE /\ reqPc' = "wait"
            /\ UNCHANGED reqResult
    /\ UNCHANGED <<retries, waited>>
    /\ UNCHANGED <<rlVars, monVars, routeVars, eqVars>>

\* the retry delay elapses: retries++, and the loop condition is evaluated
RetryDelayElapsed ==
    /\ reqPc = "wait"
    /\ waited' = Append(waited, RetryDelayMs(retries))
    /\ retries' = retries + 1
    /\ IF retries' <= MAX_RETRIES
       THEN /\ reqPc' = "attempt"
            /\ UNCHANGED reqResult
       ELSE /\ reqPc' = "thrown"
            /\ reqResult' = ErrorMessage(lastError)
    /\ UNCHANGED <<lastError, attemptLog>>
    /\ UNCHANGED <<rlVars, monVars, routeVars, eqVars>>

ReqInit ==
    /\ reqPc = "idle"
    /\ retries = 0
    /\ lastError = NoError
    /\ reqResult = ""
    /\ attemptLog = <<>>
    /\ waited = <<>>

-----------------------------------------------------------------------------
(* BackendProvider: the availability monitor                                *)

CheckInterval == 30000
MaxRetryTimeout == 300000

MaxProbes == 4        \* checkBackend calls per behaviour
MaxMonNow == 60000    \* the clock stops here
MonTickSteps == {15000}

HealthOutcomes == {"2xx", "non2xx", "timeout", "network error"}

\* lastChecked before the first check: null, no Date
NoDate == -1

Min(a, b) == IF a <= b THEN a ELSE b

RECURSIVE Pow2(_)
Pow2(n) == IF n <= 0 THEN 1 ELSE 2 * Pow2(n - 1)

\* A health check that reports the backend down whatever the answer
IsBackendAvailableNever(o) == [threw |-> FALSE, value |-> FALSE]

\* apiClient.isBackendAvailable, api.ts:103-116: the GET's failure is caught
\* and turned into the value false; nothing is thrown.
IsBackendAvailable(o) ==
    IF o = "2xx" THEN [threw |-> FALSE, value |-> TRUE]
    ELSE [threw |-> FALSE, value |-> FALSE]

\* checkBackend up to its await: setIsChecking(true) and the probe is sent.
\* The callback's closure holds the failureCount of the render it is from.
StartProbe ==
    /\ isChecking' = TRUE
    /\ probesStarted' = probesStarted + 1
    /\ inFlight' = inFlight \cup {[id |-> probesStarted + 1, fc |-> failureCount]}

\* a timer callback that checks once and sets no further timeout
RearmNever(t, timeout) == [due |-> -1, armed |-> 0]

\* scheduleNextCheck, BackendContext.tsx:88-93: one timeout is set, due
\* after retryTimeout
ScheduleNextCheck(t, timeout) == [due |-> t + timeout, armed |-> 1]

\* scheduleNextCheck() called from the timer's callback, BackendContext.tsx:91
Rearm(t, timeout) == ScheduleNextCheck(t, timeout)

\* The effect of BackendContext.tsx:81-99 runs on mount: an initial check,
\* and the first timer.
Mount ==
    /\ ~mounted
    /\ mounted' = TRUE
    /\ StartProbe
    /\ LET s == ScheduleNextCheck(monNow, retryTimeout)
       IN  /\ timerDue' = s.due
           /\ pendingTimers' = pendingTimers + s.armed
    /\ UNCHANGED <<monNow, isBackendAvailable, lastChecked, error, failureCount,
                   retryTimeout, lastProbe>>
    /\ UNCHANGED <<rlVars, reqVars, routeVars, eqVars>>

\* The pending timer fires: checkBackend(); scheduleNextCheck()
TimerFires ==
    /\ mounted
    /\ timerDue >= 0
    /\ monNow >= timerDue
    /\ probesStarted < MaxProbes
    /\ StartProbe
    /\ LET s == Rearm(monNow, retryTimeout)
       IN  /\ timerDue' = s.due
           /\ pendingTimers' = pendingTimers - 1 + s.armed
    /\ UNCHANGED <<monNow, mounted, isBackendAvailable, lastChecked, error,
                   failureCount, retryTimeout, lastProbe>>
    /\ UNCHANGED <<rlVars, reqVars, routeVars, eqVars>>

\* A consumer of the context calls checkBackend (Refresh Status, Retry
\* Connection)
ManualCheck ==
    /\ mounted
    /\ probesStarted < MaxProbes
    /\ StartProbe
    /\ UNCHANGED <<monNow, mounted, isBackendAvailable, lastChecked, error,
                   failureCount, retryTimeout, timerDue, pendingTimers,
                   lastProbe>>
    /\ UNCHANGED <<rlVars, reqVars, routeVars, eqVars>>

\* The awaited apiClient.isBackendAvailable() of probe pr settles with the
\* health endpoint answering o: the rest of checkBackend (try, catch,
\* finally), and the effect again if its dependencies [checkBackend,
\* retryTimeout] have changed (checkBackend changes with failureCount).
ProbeCompletes(pr, o) ==
    /\ pr \in inFlight
    /\ LET r == IsBackendAvailable(o)
           nextFailure == pr.fc + 1
           newTimeout == Min(CheckInterval * Pow2(nextFailure), MaxRetryTimeout)
       IN  /\ IF ~r.threw
              THEN /\ isBackendAvailable' = r.value
                   /\ lastChecked' = monNow
                   /\ error' = "null"
                   /\ failureCount' = 0
                   /\ retryTimeout' = CheckInterval
              ELSE /\ isBackendAvailable' = FALSE
                   /\ error' = o
                   /\ failureCount' = nextFailure
                   /\ retryTimeout' = newTimeout
                   /\ UNCHANGED lastChecked
           /\ lastProbe' = [done |-> TRUE, outcome |-> o, id |-> pr.id,
                            failureCountBefore |-> failureCount,
                            at |-> monNow,
                            streak |-> IF o = "2xx" THEN 0
                                       ELSE lastProbe.streak + 1,
                            newestId |-> IF pr.id > lastProbe.newestId
                                         THEN pr.id ELSE lastProbe.newestId,
                            newestOutcome |-> IF pr.id > lastProbe.newestId
                                              THEN o
                                              ELSE lastProbe.newestOutcome]
           /\ IF failureCount' # failureCount \/ retryTimeout' # retryTimeout
              THEN /\ probesStarted < MaxProbes
                   /\ isChecking' = TRUE
                   /\ probesStarted' = probesStarted + 1
                   /\ inFlight' = (inFlight \ {pr}) \cup
                         {[id |-> probesStarted + 1, fc |-> failureCount']}
                   /\ LET s == ScheduleNextCheck(monNow, retryTimeout')
                          cleared == IF timerDue >= 0 THEN 1 ELSE 0
                      IN  /\ timerDue' = s.due
                          /\ pendingTimers' = pendingTimers - cleared + s.armed
              ELSE /\ isChecking' = FALSE
                   /\ inFlight' = inFlight \ {pr}
                   /\ UNCHANGED <<probesStarted, timerDue, pendingTimers>>
    /\ UNCHANGED <<monNow, mounted>>
    /\ UNCHANGED <<rlVars, reqVars, routeVars, eqVars>>

\* Time passes in the browser; a timer that is due fires before it passes
\* on, and a probe in flight settles before it does: the health GET is
\* bounded by its timeout of 3 s (api.ts:109), the clock moves in longer steps.
MonTick ==
    /\ ~(mounted /\ timerDue >= 0 /\ monNow >= timerDue)
    /\ inFlight = {}
    /\ \E d \in MonTickSteps :
          /\ monNow + d <= MaxMonNow
          /\ monNow' = monNow + d
    /\ UNCHANGED <<mounted, isBackendAvailable, isChecking, lastChecked, error,
                   failureCount, retryTimeout, inFlight, timerDue,
                   pendingTimers, probesStarted, lastProbe>>
    /\ UNCHANGED <<rlVars, reqVars, routeVars, eqVars>>

\* BackendContext.tsx:46-51, the useState defaults
MonInit ==
    /\ monNow = 0
    /\ mounted = FALSE
    /\ isBackendAvailable = FALSE
    /\ isChecking = TRUE
    /\ lastChecked = NoDate
    /\ error = "null"
    /\ failureCount = 0
    /\ retryTimeout = CheckInterval
    /\ inFlight = {}
    /\ timerDue = -1
    /\ pendingTimers = 0
    /\ probesStarted = 0
    /\ lastProbe = [done |-> FALSE, outcome |-> "2xx", id |-> 0,
                    failureCountBefore |-> 0, at |-> 0, streak |-> 0,
                    newestId |-> 0, newestOutcome |-> "2xx"]

-----------------------------------------------------------------------------
(* POST /api/agent, app/api/agent/route.ts.  The Anthropic API key is taken  *)
(* to be configured.                                                        *)

ContentTypes == {"application/json", "text/plain", "none"}
RequestBodies == {"valid", "invalid", "unparsable"}
ProviderOutcomes == {"stream", "error"}

NoHeader == -1
NoResponse == [status |-> 0, limit |-> NoHeader, remaining |-> NoHeader,
               reset |-> NoHeader]

\* a Response without rate limit headers
Plain(status) == [status |-> status, limit |-> NoHeader,
                  remaining |-> NoHeader, reset |-> NoHeader]

\* a Response carrying X-RateLimit-Limit, -Remaining and -Reset
WithRateLimit(status, r) == [status |-> status, limit |-> r.limit,
                             remaining |-> r.remaining, reset |-> r.reset]

\* a gate that lets every request through
DeniedNever(r) == FALSE

\* if (!rateLimitResult.allowed), route.ts:71
Denied(r) == ~r.allowed

\* POST up to its first await: getClientIp(request), checkRateLimit(ip)
Post(p, ip) ==
    /\ routePc[p] \in {"idle", "responded"}
    /\ CallIncr(p, ip, MaxCalls)
    /\ routePc' = [routePc EXCEPT ![p] = "limiting"]
    /\ response' = [response EXCEPT ![p] = NoResponse]
    /\ providerCalled' = [providerCalled EXCEPT ![p] = FALSE]

\* checkRateLimit has returned: the 429, or the content type check, the
\* parse and validation of the body, and the call of the provider
AfterRateLimit(p, contentType, body) ==
    /\ routePc[p] = "limiting"
    /\ pc[p] = "done"
    /\ IF Denied(result[p])
       THEN /\ response' = [response EXCEPT ![p] = WithRateLimit(429, result[p])]
            /\ routePc' = [routePc EXCEPT ![p] = "responded"]
            /\ UNCHANGED providerCalled
       ELSE IF contentType # "application/json"
       THEN /\ response' = [response EXCEPT ![p] = Plain(415)]
            /\ routePc' = [routePc EXCEPT ![p] = "responded"]
            /\ UNCHANGED providerCalled
       ELSE IF body = "unparsable"
       THEN /\ response' = [response EXCEPT ![p] = Plain(500)]
            /\ routePc' = [routePc EXCEPT ![p] = "responded"]
            /\ UNCHANGED providerCalled
       ELSE IF body = "invalid"
       THEN /\ response' = [response EXCEPT ![p] = Plain(400)]
            /\ routePc' = [routePc EXCEPT ![p] = "responded"]
            /\ UNCHANGED providerCalled
       ELSE /\ providerCalled' = [providerCalled EXCEPT ![p] = TRUE]
            /\ routePc' = [routePc EXCEPT ![p] = "provider"]
            /\ UNCHANGED response
    /\ UNCHANGED <<rlVars, reqVars, monVars, eqVars>>

\* await anthropic.messages.create(...) settles: the streaming Response with
\* the rate limit headers, or the catch block's error Response
ProviderSettles(p, o) ==
    /\ routePc[p] = "provider"
    /\ response' = [response EXCEPT ![p] =
                        IF o = "stream" THEN WithRateLimit(200, result[p])
                        ELSE Plain(500)]
    /\ routePc' = [routePc EXCEPT ![p] = "responded"]
    /\ UNCHANGED providerCalled
    /\ UNCHANGED <<rlVars, reqVars, monVars, eqVars>>

RouteInit ==
    /\ routePc = [p \in Callers |-> "idle"]
    /\ response = [p \in Callers |-> NoResponse]
    /\ providerCalled = [p \in Callers |-> FALSE]

-----------------------------------------------------------------------------
(* The two counter stores side by side: the same commands, at the same      *)
(* times, applied to the mock of createMockRedisClient and to Redis.        *)

MaxStoreOps == 5      \* commands per behaviour of SpecStores

StoreKeys == {KeyOf(id) : id \in Identifiers}

StoreIncr(k) ==
    /\ storeOps < MaxStoreOps
    /\ LET m == MockIncr(mockStore, k)
           r == RedisIncr(redisStore, k, eqNow)
       IN  /\ mockStore' = m.st
           /\ redisStore' = r.st
           /\ mockRet' = m.ret
           /\ redisRet' = r.ret
    /\ lastOp' = "incr"
    /\ storeOps' = storeOps + 1
    /\ UNCHANGED eqNow
    /\ UNCHANGED <<rlVars, reqVars, monVars, routeVars>>

StoreExpire(k) ==
    /\ storeOps < MaxStoreOps
    /\ LET m == MockExpire(mockStore, k, RATE_LIMIT_WINDOW_SEC, eqNow)
           r == RedisExpire(redisStore, k, RATE_LIMIT_WINDOW_SEC, eqNow)
       IN  /\ mockStore' = m.st
           /\ redisStore' = r.st
           /\ mockRet' = m.ret
           /\ redisRet' = r.ret
    /\ lastOp' = "expire"
    /\ storeOps' = storeOps + 1
    /\ UNCHANGED eqNow
    /\ UNCHANGED <<rlVars, reqVars, monVars, routeVars>>

StoreTtl(k) ==
    /\ storeOps < MaxStoreOps
    /\ LET m == MockTtl(mockStore, k, eqNow)
           r == RedisTtl(redisStore, k, eqNow)
       IN  /\ mockStore' = m.st
           /\ redisStore' = r.st
           /\ mockRet' = m.ret
           /\ redisRet' = r.ret
    /\ lastOp' = "ttl"
    /\ storeOps' = storeOps + 1
    /\ UNCHANGED eqNow
    /\ UNCHANGED <<rlVars, reqVars, monVars, routeVars>>

StoreTick ==
    /\ \E d \in TickSteps :
          /\ eqNow + d <= MaxNow
          /\ eqNow' = eqNow + d
    /\ UNCHANGED <<mockStore, redisStore, lastOp, mockRet, redisRet, storeOps>>
    /\ UNCHANGED <<rlVars, reqVars, monVars, routeVars>>

EqInit ==
    /\ eqNow = 0
    /\ mockStore = EmptyStore
    /\ redisStore = EmptyStore
    /\ lastOp = "none"
    /\ mockRet = 0
    /\ redisRet = 0
    /\ storeOps = 0

-----------------------------------------------------------------------------
Init == RLInit /\ ReqInit /\ MonInit /\ RouteInit /\ EqInit

\* The rate limiter, one check at a time, against a store whose
\* reachability is fixed from the start.
Next ==
    \/ \E p \in SeqCallers, id \in Identifiers : Check(p, id, MaxCalls)
    \/ \E p \in SeqCallers : CallTtl(p)
    \/ \E p \in SeqCallers : CallExpire(p)
    \/ Tick

Spec == Init /\ [][Next]_vars

\* The same with the connection to the shared store coming and going.
NextOutage ==
    \/ \E p \in SeqCallers, id \in Identifiers : Check(p, id, MaxOutageCalls)
    \/ \E p \in SeqCallers : CallTtl(p)
    \/ \E p \in SeqCallers : CallExpire(p)
    \/ Tick
    \/ RedisClose
    \/ RedisReady

SpecOutage == Init /\ [][NextOutage]_vars

\* One client address checked often enough to be denied, with the connection
\* coming and going.
NextOutageOne ==
    \/ \E p \in SeqCallers : Check(p, "1.2.3.4", MaxCalls)
    \/ \E p \in SeqCallers : CallTtl(p)
    \/ \E p \in SeqCallers : CallExpire(p)
    \/ Tick
    \/ RedisClose
    \/ RedisReady

SpecOutageOne == Init /\ [][NextOutageOne]_vars

\* Two checks of one client address in flight at once, their store commands
\* interleaving, with the connection coming and going.
NextRace ==
    \/ \E p \in Callers : Check(p, "1.2.3.4", MaxRaceCalls)
    \/ \E p \in Callers : CallTtl(p)
    \/ \E p \in Callers : CallExpire(p)
    \/ Tick
    \/ RedisClose
    \/ RedisReady

SpecRace == Init /\ [][NextRace]_vars

\* POST /api/agent, one request at a time
NextRoute ==
    \/ \E p \in SeqCallers, ip \in Identifiers : Post(p, ip)
    \/ \E p \in SeqCallers : CallTtl(p)
    \/ \E p \in SeqCallers : CallExpire(p)
    \/ \E p \in SeqCallers, ct \in ContentTypes, b \in RequestBodies :
          AfterRateLimit(p, ct, b)
    \/ \E p \in SeqCallers, o \in ProviderOutcomes : ProviderSettles(p, o)
    \/ Tick

SpecRoute == Init /\ [][NextRoute]_vars

\* Any sequence of store commands and clock advances
NextStores ==
    \/ \E k \in StoreKeys : StoreIncr(k)
    \/ \E k \in StoreKeys : StoreExpire(k)
    \/ \E k \in StoreKeys : StoreTtl(k)
    \/ StoreTick

SpecStores == Init /\ [][NextStores]_vars

\* Two callers checking one client address, interleaving at every await,
\* often enough to pass the limit; the store does not change its state of
\* reachability.
NextContend ==
    \/ \E p \in Callers : Check(p, "1.2.3.4", MaxCalls)
    \/ \E p \in Callers : CallTtl(p)
    \/ \E p \in Callers : CallExpire(p)
    \/ Tick

SpecContend == Init /\ [][NextContend]_vars

\* apiClient.request
NextRequest ==
    \/ Request
    \/ \E o \in Successes : AttemptSucceeds(o)
    \/ \E e \in Failures : AttemptFails(e)
    \/ RetryDelayElapsed

SpecRequest == Init /\ [][NextRequest]_vars

\* Every attempt settles (axios bounds it by its timeout) and every retry
\* delay elapses.
SpecRequestFair ==
    /\ SpecRequest
    /\ WF_vars(\E o \in Successes \cup Failures :
                  AttemptSucceeds(o) \/ AttemptFails(o))
    /\ WF_vars(RetryDelayElapsed)

\* BackendProvider
NextMonitor ==
    \/ Mount
    \/ TimerFires
    \/ ManualCheck
    \/ \E pr \in inFlight, o \in HealthOutcomes : ProbeCompletes(pr, o)
    \/ MonTick

SpecMonitor == Init /\ [][NextMonitor]_vars

\* The same with timers that fire, time that passes and health GETs that
\* settle (the GET is bounded by its timeout).
SpecMonitorFair ==
    /\ SpecMonitor
    /\ WF_<<monNow, probesStarted, inFlight>>(TimerFires)
    /\ WF_<<monNow, probesStarted, inFlight>>(MonTick)
    /\ WF_<<monNow, probesStarted, inFlight>>(
          \E pr \in inFlight, o \in HealthOutcomes : ProbeCompletes(pr, o))

-----------------------------------------------------------------------------
(* Properties of the rate limiter                                           *)

\* The keyspace entry of one identifier: its counter and its expiry time
StoreOf(id) ==
    [count  |-> IF KeyOf(id) \in DOMAIN store.storage
                THEN store.storage[KeyOf(id)] ELSE 0,
     expiry |-> IF KeyOf(id) \in DOMAIN store.expirations
                THEN store.expirations[KeyOf(id)] ELSE 0]

\* Caller p has returned from a check during which, and before which, no
\* store operation for its identifier has thrown.
Returned(p) == pc[p] = "done" /\ ~tainted[identifier[p]]

\* C1: the k-th call inside one window, k <= limit, store not failing,
\* returns allowed = true and remaining = limit - k.
C1_AllowedWithinLimit ==
    \A p \in Callers :
        Returned(p) /\ ord[p] <= RATE_LIMIT =>
            result[p].allowed /\ result[p].remaining = RATE_LIMIT - ord[p]

\* C2: the (limit+1)-th call inside one window and every further call inside
\* it returns allowed = false and remaining = 0.
C2_DeniedBeyondLimit ==
    \A p \in Callers :
        Returned(p) /\ ord[p] > RATE_LIMIT =>
            ~result[p].allowed /\ result[p].remaining = 0

\* C3: the first call made once windowSeconds have elapsed since the first
\* call of the previous window observes count = 1 and is allowed, on either
\* store variant.
C3_FreshWindow ==
    \A p \in Callers :
        Returned(p) /\ ord[p] = 1 => incrResult[p] = 1 /\ result[p].allowed

\* Caller p takes a step of checkRateLimit for identifier a
StepFor(p, a) ==
    \/ CallIncr(p, a, MaxCalls)
    \/ CallIncr(p, a, MaxOutageCalls)
    \/ identifier[p] = a /\ (CallTtl(p) \/ CallExpire(p))

\* C4: a step of a check for identifier a leaves the counter and the expiry
\* of every other identifier b unchanged.
C4_DistinctIdentitiesIndependent ==
    [][\A p \in Callers : \A a \in Identifiers : \A b \in Identifiers \ {a} :
          StepFor(p, a) => StoreOf(b)' = StoreOf(b)]_vars

C4_Witness ==
    /\ StoreOf("1.2.3.4").count = 3
    /\ StoreOf("unknown").count = 1
    /\ StoreOf("1.2.3.4").expiry # StoreOf("unknown").expiry

\* C5: a check whose store operation (increment, ttl or expire) throws
\* returns, without raising, allowed = true, remaining = limit - 1,
\* limit = limit and reset = now (in seconds) + windowSeconds.
C5_FailOpen ==
    [][\A p \in Callers : \A a \in Identifiers :
          StepFor(p, a) /\ StoreThrows(redisClient', redisReady) =>
              /\ pc'[p] = "done"
              /\ result'[p] = [allowed |-> TRUE, remaining |-> 9, limit |-> 10,
                               reset |-> CeilDiv(now, 1000) + 60]]_vars

\* a check on which redis.incr succeeded and a later store operation threw
C5_Witness ==
    \E p \in Callers :
        pc[p] = "done" /\ threw[p] /\ incrResult[p] >= 1 /\ result[p].allowed

\* C6: when the shared store cannot be constructed or is unreachable, the
\* check is served by the in-process fallback, and the (limit+1)-th call of
\* a window is denied.
C6_FallbackWhenUnreachable ==
    \A p \in Callers :
        pc[p] = "done" /\ (redisCtorThrows \/ ~redisReady) =>
            /\ redisClient = "mock"
            /\ ~threw[p]
            /\ (ord[p] = RATE_LIMIT + 1 => ~result[p].allowed)

\* On the shared store the statements of C1, C2 and C3 hold
C1_OnSharedStore == redisClient = "redis" => C1_AllowedWithinLimit
C2_OnSharedStore == redisClient = "redis" => C2_DeniedBeyondLimit
C3_OnSharedStore == redisClient = "redis" => C3_FreshWindow

-----------------------------------------------------------------------------
(* Properties of apiClient.request                                          *)

Last(q) == q[Len(q)]

\* A failure the executor is to retry: a 5xx or 429 status, or no response
TransientFailure(e) ==
    ~e.ok /\ (~e.hasResponse \/ e.status = 429 \/ (e.status >= 500 /\ e.status <= 599))

\* The same without the timeouts (no response, code ECONNABORTED)
TransientNoTimeout(e) == TransientFailure(e) /\ e.code # "ECONNABORTED"

\* A 4xx status other than 429
ClientError(e) ==
    ~e.ok /\ e.hasResponse /\ e.status >= 400 /\ e.status <= 499 /\ e.status # 429

\* C7: when attempts 1..k-1 fail with a 5xx, a 429 or no response and attempt
\* k <= 3 succeeds, the call returns the data of attempt k and attempts no
\* more; a call whose attempts so far failed with a 5xx, a 429 or a network
\* error, fewer than 3 of them, has not been given up.
C7_ReturnsFirstSuccess ==
    /\ [](reqPc = "returned" =>
            /\ Len(attemptLog) >= 1 /\ Len(attemptLog) <= 3
            /\ Last(attemptLog).ok
            /\ reqResult = Last(attemptLog).data
            /\ \A i \in 1 .. Len(attemptLog) - 1 : TransientFailure(attemptLog[i]))
    /\ []((/\ Len(attemptLog) < 3
           /\ \A i \in 1 .. Len(attemptLog) : TransientNoTimeout(attemptLog[i]))
             => reqPc # "thrown")
    /\ [][reqPc = "returned" => attemptLog' \in {attemptLog, <<>>}]_vars

\* 500, 500, 200: the 200 response is returned
C7_Witness ==
    /\ reqPc = "returned"
    /\ Len(attemptLog) = 3
    /\ attemptLog[1].status = 500 /\ attemptLog[2].status = 500
    /\ attemptLog[3].status = 200
    /\ reqResult = "data2"

\* C8: an attempt that fails with a 4xx other than 429 ends the call at
\* once: an error is thrown, no delay is waited after the attempt, and when
\* it is the first attempt it is the only one.
C8_ClientErrorNotRetried ==
    (attemptLog # <<>> /\ ClientError(Last(attemptLog))) =>
        /\ reqPc = "thrown"
        /\ reqResult # ""
        /\ Len(waited) = Len(attemptLog) - 1
        /\ \A i \in 1 .. Len(attemptLog) - 1 : ~ClientError(attemptLog[i])

C8_Witness ==
    /\ Len(attemptLog) = 1
    /\ attemptLog[1].status = 400
    /\ reqPc = "thrown"
    /\ waited = <<>>

-----------------------------------------------------------------------------
(* Properties of the availability monitor                                   *)

\* C10: a probe that fails (timeout, network error, non-2xx) leaves
\* isBackendAvailable = false, failureCount one above its value before the
\* probe completed, and error non-null.
C10_FailedProbeCounted ==
    (lastProbe.done /\ lastProbe.outcome # "2xx") =>
        /\ isBackendAvailable = FALSE
        /\ failureCount = lastProbe.failureCountBefore + 1
        /\ error # "null"

\* C11: after k consecutive failed probes (k >= 1) the next poll interval is
\* min(base * 2^k, cap), with the provider's base of 30 s and cap of 300 s:
\* 60 s, 120 s, 240 s, 300 s; and the interval never exceeds the cap.
C11_BackoffAfterFailures ==
    /\ retryTimeout <= 300000
    /\ (lastProbe.done /\ lastProbe.streak >= 1) =>
          retryTimeout = Min(30000 * Pow2(lastProbe.streak), 300000)

\* C12: a probe that succeeds leaves isBackendAvailable = true,
\* failureCount = 0, retryTimeout = the base interval (30 s), error = null
\* and lastChecked = the time the probe completed, whatever the state was
\* before.
C12_SuccessResets ==
    (lastProbe.done /\ lastProbe.outcome = "2xx") =>
        /\ isBackendAvailable = TRUE
        /\ failureCount = 0
        /\ retryTimeout = 30000
        /\ error = "null"
        /\ lastChecked = lastProbe.at

\* A later probe than the initial one succeeds, 30 s after the mount
C12_Witness ==
    /\ lastProbe.done /\ lastProbe.outcome = "2xx"
    /\ lastProbe.id >= 2
    /\ lastProbe.at = 30000
    /\ lastChecked = 30000
    /\ isBackendAvailable

\* C13: at most one health probe is in flight at any time: a manual check
\* or a timer firing while a probe is in flight starts no second probe.
C13_OneProbeInFlight ==
    Cardinality(inFlight) <= 1

-----------------------------------------------------------------------------
(* Properties of getRedisClient and checkRateLimit                          *)

\* C15: across all calls of getRedisClient a store client is constructed at
\* most once, every call returns the same instance, and when the constructor
\* throws the exception reaches no caller: the in-process fallback is
\* installed and is what that call and every later call get.
C15_ConstructedOnce ==
    /\ [](constructions <= 1)
    /\ [](constructions = 0 <=> redisClient = "null")
    /\ [][redisClient # "null" => redisClient' = redisClient]_vars
    /\ []((redisCtorThrows /\ constructions >= 1) =>
             /\ redisClient = "mock"
             /\ \A p \in Callers : ~threw[p])

\* The constructor threw on the first call; three calls later the fallback
\* is still the client and holds their count.
C15_Witness ==
    /\ redisCtorThrows
    /\ redisClient = "mock"
    /\ constructions = 1
    /\ calls = 3
    /\ StoreOf("unknown").count = 3

\* The decision of a completed call whose increment returned a count
Counted(p) == pc[p] = "done" /\ incrResult[p] >= 1

\* C16 as stated: whenever the increment of a call returned c, the decision
\* of that call has allowed = (c <= 10) and remaining = max(0, 10 - c); and
\* allowed = false is returned only when the increment returned c > 10.
C16_DecisionFromCount ==
    \A p \in Callers :
        /\ Counted(p) =>
              /\ result[p].allowed = (incrResult[p] <= 10)
              /\ result[p].remaining =
                    (IF incrResult[p] <= 10 THEN 10 - incrResult[p] ELSE 0)
        /\ (pc[p] = "done" /\ ~result[p].allowed) => incrResult[p] > 10

\* C16, amended: the decision follows the count when no store operation of
\* the call throws after the increment; a call whose ttl or expire throws
\* returns the fail-open decision (allowed, remaining 9) whatever its count;
\* and allowed = false is returned only for a count above 10 by a call in
\* which nothing threw.
C16_DecisionFromCountUnlessThrown ==
    \A p \in Callers :
        /\ (Counted(p) /\ ~threw[p]) =>
              /\ result[p].allowed = (incrResult[p] <= 10)
              /\ result[p].remaining =
                    (IF incrResult[p] <= 10 THEN 10 - incrResult[p] ELSE 0)
        /\ (pc[p] = "done" /\ threw[p]) =>
              result[p].allowed /\ result[p].remaining = 9
        /\ (pc[p] = "done" /\ ~result[p].allowed) =>
              incrResult[p] > 10 /\ ~threw[p]

\* The 11th call of a window is denied after outages earlier in the window
C16_Witness ==
    /\ Counted(1) /\ ~threw[1]
    /\ incrResult[1] = 11
    /\ ~result[1].allowed /\ result[1].remaining = 0
    /\ tainted["1.2.3.4"]

\* C17: for every call inside a window the reset returned is the time of the
\* window's first call plus 60 s, within 1 s of rounding; later calls of the
\* window do not shift it.
C17_ResetIsWindowEnd ==
    \A p \in Callers :
        Returned(p) =>
            LET end == window[identifier[p]].start + 60000
                reset == result[p].reset * 1000
            IN  reset - end <= 1000 /\ end - reset <= 1000

C17_OnSharedStore == redisClient = "redis" => C17_ResetIsWindowEnd

\* What a TTL query for the key of id would answer now: -2 no such key,
\* -1 a key without expiry, otherwise seconds
KeyTtl(id) == Ttl(redisClient, store, KeyOf(id), now).ret

\* Caller p is between two store commands of a check
InFlight(p) == pc[p] \in {"ttl", "expire"}

\* C18: when a call completes without a store error, under any interleaving
\* with concurrent checks of the same identity, the key ratelimit:<identity>
\* does not exist or has a TTL of at most 60 s; and a call that finds the key
\* with TTL -1 goes on to give it one.
C18_KeyHasTtlOnCompletion ==
    /\ [][\A p \in Callers :
            (InFlight(p) /\ pc'[p] = "done" /\ ~threw'[p]) =>
                /\ KeyTtl(identifier[p])' # -1
                /\ KeyTtl(identifier[p])' <= 60]_vars
    /\ [](\A p \in Callers :
            ttl[p] = -1 => \/ pc[p] = "expire"
                           \/ pc[p] = "done" /\ threw[p])

\* Caller 2 made the first request of the key and has not set the expiry
\* yet; caller 1 counted 2, found the key without TTL, set it and returned.
C18_Witness ==
    /\ pc[2] = "expire" /\ incrResult[2] = 1
    /\ pc[1] = "done" /\ ~threw[1] /\ incrResult[1] = 2 /\ ttl[1] = 60
    /\ KeyTtl("1.2.3.4") = 60

\* C20: concurrent checks of one identity lose no update: checks that are
\* in flight together, made inside one window, hold distinct counts.
C20_NoLostUpdate ==
    \A p, q \in Callers :
        (p # q /\ InFlight(p) /\ InFlight(q) /\ identifier[p] = identifier[q])
            => incrResult[p] # incrResult[q]

C20_OnSharedStore == redisClient = "redis" => C20_NoLostUpdate

-----------------------------------------------------------------------------
(* Properties of the agent route                                            *)

\* C14: for every POST the provider is invoked only after checkRateLimit
\* has returned allowed = true for that request; when it returned allowed =
\* false the handler answers 429 with the limit, remaining and reset values
\* of the decision and never calls the provider.
C14_ProviderBehindRateLimit ==
    /\ [](\A p \in Callers :
            (providerCalled[p] \/ routePc[p] = "provider") =>
                pc[p] = "done" /\ result[p].allowed)
    /\ [][\A p \in Callers :
            (providerCalled'[p] /\ ~providerCalled[p]) =>
                /\ routePc[p] = "limiting"
                /\ pc[p] = "done" /\ result[p].allowed]_vars
    /\ [](\A p \in Callers :
            (routePc[p] = "responded" /\ ~result[p].allowed) =>
                /\ response[p] = [status |-> 429, limit |-> 10, remaining |-> 0,
                                  reset |-> result[p].reset]
                /\ ~providerCalled[p])

\* The 11th request of a client inside a minute is answered 429 without a
\* call of the provider
C14_Witness ==
    /\ routePc[1] = "responded"
    /\ incrResult[1] = 11
    /\ ~result[1].allowed
    /\ response[1].status = 429
    /\ ~providerCalled[1]

\* A request that passed the rate limit has reached the provider
C14_WitnessAllowed ==
    /\ routePc[1] = "provider"
    /\ providerCalled[1]
    /\ result[1].allowed /\ incrResult[1] = 10

-----------------------------------------------------------------------------
(* Properties of the fallback store                                         *)

\* C19: the in-process fallback returns what Redis INCR / EXPIRE / TTL
\* return, for every sequence of commands and clock advances, also on a key
\* whose TTL has elapsed (increment 1, ttl -2, expire 0).
C19_MockMatchesRedis ==
    mockRet = redisRet

-----------------------------------------------------------------------------
(* Properties of apiClient.request, continued                               *)

\* C21: an attempt that fails with no response (network error or timeout),
\* a 429 or a 5xx, made while fewer than 2 retries have been made, is
\* followed by another attempt: the call is not given up on it.
C21_TransientRetried ==
    (reqPc = "thrown" /\ Len(attemptLog) >= 1 /\ Len(attemptLog) <= 2) =>
        ~TransientFailure(Last(attemptLog))

\* C22: the delay waited before retry k (k = 0 for the first) is
\* min(1000 * 2^k, cap) ms, the backoff of the availability monitor with
\* base 1000 and its cap of 300000, for every k the call reaches.
C22_DelayIsBackoff ==
    /\ Len(waited) <= 2
    /\ \A i \in 1 .. Len(waited) :
          waited[i] = Min(1000 * Pow2(i - 1), 300000)

\* Both retries have been waited for: 1 s, then 2 s
C22_Witness ==
    /\ waited = <<1000, 2000>>
    /\ Len(attemptLog) = 3

\* C23: the error thrown when the call gives up is built from the attempt
\* that failed last, and its message is the first non-empty of the
\* response body's message, the response body's error, the transport
\* error's message and 'API request failed'.
C23_MessageFromLastError ==
    reqPc = "thrown" =>
        /\ Len(attemptLog) >= 1
        /\ lastError = Last(attemptLog)
        /\ LET e == Last(attemptLog)
           IN  reqResult =
                 IF e.hasResponse /\ e.body.message # "" THEN e.body.message
                 ELSE IF e.hasResponse /\ e.body.error # "" THEN e.body.error
                 ELSE IF e.message # "" THEN e.message
                 ELSE "API request failed"

\* The first attempt carried a server message, the last only a body error:
\* the message thrown is the last one's
C23_Witness ==
    /\ reqPc = "thrown"
    /\ Len(attemptLog) = 3
    /\ attemptLog[1].body.message = "server message"
    /\ attemptLog[3].hasResponse
    /\ attemptLog[3].body = [message |-> "", error |-> "server error"]
    /\ reqResult = "server error"

\* The last attempt had no response and no transport message
C23_WitnessFallback ==
    /\ reqPc = "thrown"
    /\ ~Last(attemptLog).hasResponse /\ Last(attemptLog).message = ""
    /\ reqResult = "API request failed"

-----------------------------------------------------------------------------
(* Properties of the availability monitor, continued                        *)

\* C24: once a probe has completed, scheduled or manual, the next scheduled
\* probe is due no earlier than one poll interval after that completion: a
\* completed manual check resets the schedule.
C24_ScheduledAfterCompletion ==
    (mounted /\ lastProbe.done /\ inFlight = {}) =>
        timerDue >= lastProbe.at + retryTimeout

\* C28: isChecking is true in every state in which a health probe is in
\* flight, and false only when none is.
C28_CheckingWhileInFlight ==
    inFlight # {} => isChecking

\* C29: once every probe in flight has completed, isBackendAvailable is the
\* outcome of the probe that was started last: an earlier probe completing
\* later does not overwrite it.
C29_LastStartedWins ==
    (inFlight = {} /\ lastProbe.done) =>
        isBackendAvailable = (lastProbe.newestOutcome = "2xx")

\* C30: while the provider is mounted exactly one timer is pending, after
\* every probe and every run of the effect, and the probe it schedules is
\* started in the end (as far as the bounds MaxProbes and MaxMonNow reach).
C30_ProbingNeverStops ==
    /\ [](mounted => pendingTimers = 1 /\ timerDue >= 0)
    /\ \A d \in {30000, 45000, 60000} :
          (mounted /\ timerDue = d) ~> (timerDue > d \/ probesStarted >= MaxProbes)

\* A scheduled probe has failed and the next one is armed
C30_Witness ==
    /\ mounted
    /\ lastProbe.done /\ lastProbe.outcome = "timeout" /\ lastProbe.id = 2
    /\ lastProbe.at = 30000
    /\ probesStarted = 2
    /\ timerDue = 60000 /\ pendingTimers = 1

-----------------------------------------------------------------------------
(* Properties of checkRateLimit and the agent route, continued              *)

\* Caller p returns a decision in this step
Returns(p) ==
    /\ pc'[p] = "done"
    /\ <<pc[p], result[p], calls>> # <<pc'[p], result'[p], calls'>>

\* C26: every decision returned by checkRateLimit, on every path (new
\* window, existing window, call just after the window expired, fail-open),
\* has a reset that is not earlier than the time of the return, in seconds.
C26_ResetNotInPast ==
    [][\A p \in Callers :
          Returns(p) => result'[p].reset * 1000 >= now']_vars

C26_OnSharedStore ==
    [][\A p \in Callers :
          (Returns(p) /\ redisClient' = "redis") =>
              result'[p].reset * 1000 >= now']_vars

\* A POST enters the handler in this step
Posted(p) == routePc[p] # "limiting" /\ routePc'[p] = "limiting"

C25_AtMostLimitPerKeyLife ==
    \A id \in Identifiers :
        ~tainted[id] =>
            \A g \in 1 .. Len(quota.granted[id]) : quota.granted[id][g] <= 10

\* Two callers have used up one life of the key: ten calls allowed, the
\* eleventh denied while the twelfth is in flight
C25_Witness ==
    /\ ~tainted["1.2.3.4"]
    /\ quota.granted["1.2.3.4"] = <<10>>
    /\ pc[1] = "done" /\ incrResult[1] = 11 /\ ~result[1].allowed
    /\ InFlight(2) /\ incrResult[2] = 12

====
